---------------------------- MODULE Spec2Model ----------------------------
(***************************************************************************)
(* A model of ts-stocks: the alert loop runAlert (src/src/alert.ts), the   *)
(* quote fetcher fetchQuote with its parser, the browser polling session   *)
(* (src/src/stooq.ts) and the relay endpoint (src/server/server.ts).       *)
(*                                                                         *)
(* Prices, targets and delays are integers.  Text is a sequence of         *)
(* one-character strings, so that trim, split and indexOf are computed on  *)
(* characters as the code computes them on a JavaScript string.            *)
(***************************************************************************)
EXTENDS Integers, Sequences, FiniteSets, TLC

VARIABLES
  \* ---- one runAlert invocation, hosted by the CLI process ----
  config,     \* the AlertConfig argument: [target, direction, intervalMs]
  pc,         \* where runAlert stands: "start", "threw", "fetching",
              \* "sleeping", "returned", or "exited" (process.exit)
  pending,    \* number of fetchQuote promises of this instance not yet settled
  timer,      \* ms left of the outstanding sleep(), -1 when none
  elapsed,    \* ms passed since the last fetch settled
  fetches,    \* number of fetchQuote calls issued so far
  trace,      \* history: what the instance did and observed, in order
  \* ---- the browser page ----
  ui,                 \* the DOM: priceText, statusText, alertText, the "show"
                      \* class of alertText, startBtn.disabled, stopBtn.disabled
  pollingIntervalId,  \* the page's variable of that name, 0 for null
  timers,             \* the live setInterval timers: [id, s], s the session
  sessions,           \* the closures startPolling created, in order
  inflight,           \* poll() invocations awaiting fetchQuote: [n, s]
  polls,              \* number of fetches the page has issued
  hist,               \* history, per session: how many fetches its polls
                      \* issued, how many status updates, error updates and
                      \* showAlert calls they made, and whether the user
                      \* clicked Stop while it was the running session
  \* ---- the pure functions, applied to drawn inputs ----
  responseBody,  \* a response body (csvText of fetchQuote)
  parsed,     \* None, or Some(what fetchQuote makes of responseBody)
  th,         \* a close, a target and a direction, with what the threshold
              \* predicates of runAlert and of poll make of them
  \* ---- one fetchQuote invocation, and the relay request that may host it ----
  fq,         \* the invocation: where it stands ("idle", "fetch", "text",
              \* "done"), its symbol argument, the upstream requests it
              \* issued, the response status, how often it read the body,
              \* the body it read, and how its promise settled
  srv         \* one GET /api/quote: where the handler stands ("idle",
              \* "await", "done"), the symbol query parameter, and the
              \* responses it sent

cliVars == <<config, pc, pending, timer, elapsed, fetches, trace>>
webVars == <<ui, pollingIntervalId, timers, sessions, inflight, polls, hist>>
pureVars == <<responseBody, parsed, th>>
netVars == <<fq, srv>>

vars == <<cliVars, webVars, pureVars, netVars>>

(***************************************************************************)
(* Bounds of the model.                                                    *)
(***************************************************************************)
MaxCycles == 3        \* fetches one runAlert instance issues in the model
MaxClose == 4         \* observed closes range over 0..MaxClose
MaxSessions == 2      \* Start clicks that pass validation
MaxPolls == 3         \* fetches the browser page issues in the model
MaxFields == 4        \* fields of a drawn data row

Closes == 0..MaxClose
Directions == {"above", "below"}
Targets == {-1, 0, 2, 3}
Intervals == {-1, 0, 1, 2}
\* what a rejected fetchQuote carries: a network error, an HTTP error, a
\* parser failure
FailureMessages == {"network", "http", "parse"}

\* A value that may be absent (null, undefined, NaN, the text "--", the empty
\* alert text) is a sequence: <<>> when absent, <<x>> or a longer tuple when
\* present.
None == <<>>
Some(x) == <<x>>

Configs == [target : Targets, direction : Directions, intervalMs : Intervals]

(***************************************************************************)
(* runAlert, src/src/alert.ts 45-110.                                      *)
(***************************************************************************)

\* a faulty variant: the validation rejects only negative values
ConfigValidLoose(c) == ~(c.intervalMs < 0) /\ ~(c.target < 0)

\* alert.ts 49-55: the two validation throws
ConfigValid(c) == ~(c.intervalMs <= 0) /\ ~(c.target <= 0)

\* alert.ts 75-84: the threshold predicate of runAlert
thresholdCrossed(direction, currentPrice, target) ==
  IF direction = "above"
    THEN currentPrice >= target
    ELSE currentPrice <= target

Event(e, v) == [e |-> e, v |-> v]

\* alert.ts 65: the loop calls fetchQuote and awaits it
IssueFetch ==
  /\ pending' = pending + 1
  /\ fetches' = fetches + 1
  /\ pc' = "fetching"

\* a faulty variant: the timer is armed without its delay
sleepNoDelay(ms) ==
  /\ timer' = 0
  /\ pc' = "sleeping"

\* a faulty variant: the promise of sleep() is never resolved
sleepNeverResolved(ms) ==
  /\ timer' = -1
  /\ pc' = "sleeping"

\* alert.ts 118-120: sleep(ms) arms a timer; the loop awaits it.  The timer
\* is taken to honour its delay (ms within the range setTimeout accepts).
sleep(ms) ==
  /\ timer' = ms
  /\ pc' = "sleeping"

\* alert.ts 45-65: the call, up to the first await
RunAlertCall ==
  /\ UNCHANGED <<webVars, pureVars, netVars>>
  /\ pc = "start"
  /\ IF ConfigValid(config)
       THEN /\ IssueFetch
            /\ trace' = trace \o <<Event("log.start", config.target),
                                   Event("fetch", elapsed)>>
            /\ UNCHANGED <<config, timer, elapsed>>
       ELSE /\ pc' = "threw"
            /\ UNCHANGED <<config, pending, timer, elapsed, fetches, trace>>

\* a faulty variant: the alert branch lacks its break and falls through to the sleep
FetchResolveNoBreak(close) ==
  /\ UNCHANGED <<webVars, pureVars, netVars>>
  /\ pc = "fetching"
  /\ pending > 0
  /\ pending' = pending - 1
  /\ elapsed' = 0
  /\ trace' = trace \o
       <<Event("resolve", close), Event("log.status", close)>> \o
       (IF thresholdCrossed(config.direction, close, config.target)
          THEN <<Event("log.alert", <<close, config.target>>)>> ELSE <<>>) \o
       <<Event("sleep", config.intervalMs)>>
  /\ sleep(config.intervalMs)
  /\ UNCHANGED <<config, fetches>>

\* alert.ts 65-96: fetchQuote resolved with a quote
FetchResolve(close) ==
  /\ UNCHANGED <<webVars, pureVars, netVars>>
  /\ pc = "fetching"
  /\ pending > 0
  /\ pending' = pending - 1
  /\ elapsed' = 0
  /\ IF thresholdCrossed(config.direction, close, config.target)
       THEN /\ trace' = trace \o <<Event("resolve", close),
                                   Event("log.status", close),
                                   Event("log.alert", <<close, config.target>>)>>
            /\ pc' = "returned"
            /\ UNCHANGED timer
       ELSE /\ trace' = trace \o <<Event("resolve", close),
                                   Event("log.status", close),
                                   Event("sleep", config.intervalMs)>>
            /\ sleep(config.intervalMs)
  /\ UNCHANGED <<config, fetches>>

\* a faulty variant: the catch block logs and rethrows
FetchRejectRethrow(msg) ==
  /\ UNCHANGED <<webVars, pureVars, netVars>>
  /\ pc = "fetching"
  /\ pending > 0
  /\ pending' = pending - 1
  /\ elapsed' = 0
  /\ trace' = trace \o <<Event("reject", msg), Event("log.error", msg)>>
  /\ pc' = "threw"
  /\ UNCHANGED <<config, fetches, timer>>

\* a faulty variant: the catch block fires a second fetchQuote without awaiting it
FetchRejectEagerRetry(msg) ==
  /\ UNCHANGED <<webVars, pureVars, netVars>>
  /\ pc = "fetching"
  /\ pending > 0
  /\ fetches < MaxCycles
  /\ pending' = pending
  /\ fetches' = fetches + 1
  /\ elapsed' = 0
  /\ trace' = trace \o <<Event("reject", msg),
                         Event("log.error", msg),
                         Event("fetch", 0),
                         Event("sleep", config.intervalMs)>>
  /\ sleep(config.intervalMs)
  /\ UNCHANGED config

\* a faulty variant: the catch block swallows the error and only sleeps
FetchRejectSilent(msg) ==
  /\ UNCHANGED <<webVars, pureVars, netVars>>
  /\ pc = "fetching"
  /\ pending > 0
  /\ pending' = pending - 1
  /\ elapsed' = 0
  /\ trace' = trace \o <<Event("reject", msg),
                         Event("sleep", config.intervalMs)>>
  /\ sleep(config.intervalMs)
  /\ UNCHANGED <<config, fetches>>

\* alert.ts 97-108: fetchQuote rejected, the catch block
FetchReject(msg) ==
  /\ UNCHANGED <<webVars, pureVars, netVars>>
  /\ pc = "fetching"
  /\ pending > 0
  /\ pending' = pending - 1
  /\ elapsed' = 0
  /\ trace' = trace \o <<Event("reject", msg),
                         Event("log.error", msg),
                         Event("log.retry", config.intervalMs),
                         Event("sleep", config.intervalMs)>>
  /\ sleep(config.intervalMs)
  /\ UNCHANGED <<config, fetches>>

\* setTimeout of sleep(): one millisecond passes
Tick ==
  /\ UNCHANGED <<webVars, pureVars, netVars>>
  /\ pc = "sleeping"
  /\ timer > 0
  /\ timer' = timer - 1
  /\ elapsed' = elapsed + 1
  /\ UNCHANGED <<config, pc, pending, fetches, trace>>

\* alert.ts 96/107 -> 62-65: the sleep is over, the next cycle fetches
SleepDone ==
  /\ UNCHANGED <<webVars, pureVars, netVars>>
  /\ pc = "sleeping"
  /\ timer = 0
  /\ fetches < MaxCycles
  /\ timer' = -1
  /\ IssueFetch
  /\ trace' = trace \o <<Event("fetch", elapsed)>>
  /\ UNCHANGED <<config, elapsed>>

\* alert.ts 277-288: a line typed while the alert runs; "q" exits the process
CommandLine(command) ==
  /\ UNCHANGED <<webVars, pureVars, netVars>>
  /\ pc \in {"fetching", "sleeping"}
  /\ IF command = "q"
       THEN /\ pc' = "exited"
            /\ pending' = 0
            /\ timer' = -1
            /\ trace' = trace \o <<Event("quit", 0)>>
            /\ UNCHANGED <<config, elapsed, fetches>>
       ELSE UNCHANGED cliVars


(***************************************************************************)
(* Text.  A JavaScript string is a sequence of one-character strings.      *)
(***************************************************************************)
Min(S) == CHOOSE x \in S : \A y \in S : x <= y
Max(S) == CHOOSE x \in S : \A y \in S : x >= y

\* the white space String.prototype.trim removes, within the model's alphabet
IsWhitespace(c) == c \in {" ", "\t", "\n", "\r"}

\* String.prototype.trim
trim(s) ==
  LET keep == {i \in 1..Len(s) : ~IsWhitespace(s[i])}
  IN IF keep = {} THEN <<>> ELSE SubSeq(s, Min(keep), Max(keep))

\* String.prototype.split(sep), sep one character: always at least one piece
RECURSIVE SplitFrom(_, _, _)
SplitFrom(s, sep, start) ==
  LET at == {i \in start..Len(s) : s[i] = sep}
  IN IF at = {}
       THEN <<SubSeq(s, start, Len(s))>>
       ELSE <<SubSeq(s, start, Min(at) - 1)>> \o SplitFrom(s, sep, Min(at) + 1)
split(s, sep) == SplitFrom(s, sep, 1)

\* Array.prototype.indexOf: the first 0-based position of x, or -1
indexOf(arr, x) ==
  LET at == {i \in 1..Len(arr) : arr[i] = x}
  IN IF at = {} THEN -1 ELSE Min(at) - 1

\* arr[i]?.trim() with a 0-based i: None for undefined
TrimmedAt(arr, i) ==
  IF i >= 0 /\ i + 1 <= Len(arr) THEN Some(trim(arr[i + 1])) ELSE None

\* JavaScript truthiness of a string-or-undefined value
Falsy(v) == v = None \/ v = Some(<<>>)

Digits == {"0", "1", "2", "3", "4", "5", "6", "7", "8", "9"}
DigitValue(c) ==
  CASE c = "0" -> 0 [] c = "1" -> 1 [] c = "2" -> 2 [] c = "3" -> 3
    [] c = "4" -> 4 [] c = "5" -> 5 [] c = "6" -> 6 [] c = "7" -> 7
    [] c = "8" -> 8 [] c = "9" -> 9

\* the longest prefix of s made of digits
DigitPrefix(s) ==
  LET stop == {i \in 1..Len(s) : s[i] \notin Digits}
  IN IF stop = {} THEN s ELSE SubSeq(s, 1, Min(stop) - 1)

RECURSIVE DigitsToNat(_)
DigitsToNat(ds) ==
  IF ds = <<>> THEN 0
  ELSE 10 * DigitsToNat(SubSeq(ds, 1, Len(ds) - 1)) + DigitValue(ds[Len(ds)])

Drop(s, n) == SubSeq(s, n + 1, Len(s))
StartsWith(s, prefix) ==
  Len(s) >= Len(prefix) /\ SubSeq(s, 1, Len(prefix)) = prefix

InfinityText == <<"I", "n", "f", "i", "n", "i", "t", "y">>

\* parseFloat: skips leading white space, reads the longest prefix that is a
\* decimal literal (sign, digits, fraction, exponent, or Infinity) and ignores
\* what follows.  The result is [kind |-> "NaN"], [kind |-> "Infinity", neg]
\* or [kind |-> "number", neg, mant, exp], the number (-1)^neg * mant * 10^exp.
parseFloat(text) ==
  LET lead == {i \in 1..Len(text) : ~IsWhitespace(text[i])}
      t == IF lead = {} THEN <<>> ELSE Drop(text, Min(lead) - 1)
      signed == t # <<>> /\ t[1] \in {"+", "-"}
      neg == t # <<>> /\ t[1] = "-"
      u == IF signed THEN Drop(t, 1) ELSE t
      int == DigitPrefix(u)
      afterInt == Drop(u, Len(int))
      dot == afterInt # <<>> /\ afterInt[1] = "."
      frac == IF dot THEN DigitPrefix(Drop(afterInt, 1)) ELSE <<>>
      afterMant == IF dot THEN Drop(afterInt, 1 + Len(frac)) ELSE afterInt
      hasE == afterMant # <<>> /\ afterMant[1] \in {"e", "E"}
      e1 == IF hasE THEN Drop(afterMant, 1) ELSE <<>>
      eSigned == e1 # <<>> /\ e1[1] \in {"+", "-"}
      eNeg == e1 # <<>> /\ e1[1] = "-"
      eDigits == DigitPrefix(IF eSigned THEN Drop(e1, 1) ELSE e1)
      expo == IF eDigits = <<>> THEN 0
              ELSE IF eNeg THEN 0 - DigitsToNat(eDigits) ELSE DigitsToNat(eDigits)
  IN IF StartsWith(u, InfinityText)
       THEN [kind |-> "Infinity", neg |-> neg]
     ELSE IF int = <<>> /\ frac = <<>>
       THEN [kind |-> "NaN"]
     ELSE [kind |-> "number", neg |-> neg,
           mant |-> DigitsToNat(int \o frac), exp |-> expo - Len(frac)]

isNaN(x) == x.kind = "NaN"

(***************************************************************************)
(* fetchQuote, src/src/stooq.ts 15-111: the checks on the response body.   *)
(***************************************************************************)
kSymbol == <<"S", "y", "m", "b", "o", "l">>
kDate == <<"D", "a", "t", "e">>
kTime == <<"T", "i", "m", "e">>
kClose == <<"C", "l", "o", "s", "e">>
kNA == <<"N", "/", "A">>

Failure(reason) == [ok |-> FALSE, reason |-> reason]
Quote(symbol, date, time, close) ==
  [ok |-> TRUE, symbol |-> symbol, date |-> date, time |-> time, close |-> close]

\* a faulty variant: the close price is checked before the symbol and the timestamp
ParseDataRowPriceFirst(lines, symbolIndex, dateIndex, timeIndex, closeIndex) ==
  LET dataRow == split(lines[2], ",")
      symbolValue == TrimmedAt(dataRow, symbolIndex)
      dateValue == TrimmedAt(dataRow, dateIndex)
      timeValue == TrimmedAt(dataRow, timeIndex)
      closeValue == TrimmedAt(dataRow, closeIndex)
  IN IF Falsy(closeValue) \/ closeValue = Some(kNA)
       THEN Failure("MissingPrice")
     ELSE IF Falsy(symbolValue) \/ symbolValue = Some(kNA)
       THEN Failure("InvalidSymbol")
     ELSE IF Falsy(dateValue) \/ Falsy(timeValue)
       THEN Failure("MissingTimestamp")
     ELSE LET closeNumber == parseFloat(closeValue[1])
          IN IF isNaN(closeNumber)
               THEN Failure("InvalidPrice")
               ELSE Quote(symbolValue[1], dateValue[1], timeValue[1], closeNumber)

\* a faulty variant: the close price is parsed strictly, as Number() does, so
\* that text after the number makes it not-a-number
ParseDataRowStrict(lines, symbolIndex, dateIndex, timeIndex, closeIndex) ==
  LET dataRow == split(lines[2], ",")
      symbolValue == TrimmedAt(dataRow, symbolIndex)
      dateValue == TrimmedAt(dataRow, dateIndex)
      timeValue == TrimmedAt(dataRow, timeIndex)
      closeValue == TrimmedAt(dataRow, closeIndex)
  IN IF Falsy(symbolValue) \/ symbolValue = Some(kNA)
       THEN Failure("InvalidSymbol")
     ELSE IF Falsy(dateValue) \/ Falsy(timeValue)
       THEN Failure("MissingTimestamp")
     ELSE IF Falsy(closeValue) \/ closeValue = Some(kNA)
       THEN Failure("MissingPrice")
     ELSE LET closeNumber == parseFloat(closeValue[1])
              clean == \A i \in 1..Len(closeValue[1]) :
                         closeValue[1][i] \in Digits \cup {".", "-", "+"}
          IN IF isNaN(closeNumber) \/ ~clean
               THEN Failure("InvalidPrice")
               ELSE Quote(symbolValue[1], dateValue[1], timeValue[1], closeNumber)

\* stooq.ts 68-110: the data row, once the header has all four columns
ParseDataRow(lines, symbolIndex, dateIndex, timeIndex, closeIndex) ==
  LET dataRow == split(lines[2], ",")
      symbolValue == TrimmedAt(dataRow, symbolIndex)
      dateValue == TrimmedAt(dataRow, dateIndex)
      timeValue == TrimmedAt(dataRow, timeIndex)
      closeValue == TrimmedAt(dataRow, closeIndex)
  IN IF Falsy(symbolValue) \/ symbolValue = Some(kNA)
       THEN Failure("InvalidSymbol")
     ELSE IF Falsy(dateValue) \/ Falsy(timeValue)
       THEN Failure("MissingTimestamp")
     ELSE IF Falsy(closeValue) \/ closeValue = Some(kNA)
       THEN Failure("MissingPrice")
     ELSE LET closeNumber == parseFloat(closeValue[1])
          IN IF isNaN(closeNumber)
               THEN Failure("InvalidPrice")
               ELSE Quote(symbolValue[1], dateValue[1], timeValue[1], closeNumber)

\* a faulty variant: the body is split into lines without being trimmed
ParseQuoteNoTrim(csvText) ==
  IF trim(csvText) = <<>>
    THEN Failure("EmptyResponse")
  ELSE LET lines == split(csvText, "\n")
       IN IF Len(lines) < 2
            THEN Failure("MalformedStructure")
          ELSE LET header == split(lines[1], ",")
                   symbolIndex == indexOf(header, kSymbol)
                   dateIndex == indexOf(header, kDate)
                   timeIndex == indexOf(header, kTime)
                   closeIndex == indexOf(header, kClose)
               IN IF symbolIndex = -1 \/ dateIndex = -1
                       \/ timeIndex = -1 \/ closeIndex = -1
                    THEN Failure("MissingColumn")
                    ELSE ParseDataRow(lines, symbolIndex, dateIndex,
                                      timeIndex, closeIndex)

\* a faulty variant: the header check forgets the Close column
ParseQuoteCloseUnchecked(csvText) ==
  IF trim(csvText) = <<>>
    THEN Failure("EmptyResponse")
  ELSE LET lines == split(trim(csvText), "\n")
       IN IF Len(lines) < 2
            THEN Failure("MalformedStructure")
          ELSE LET header == split(lines[1], ",")
                   symbolIndex == indexOf(header, kSymbol)
                   dateIndex == indexOf(header, kDate)
                   timeIndex == indexOf(header, kTime)
                   closeIndex == indexOf(header, kClose)
               IN IF symbolIndex = -1 \/ dateIndex = -1 \/ timeIndex = -1
                    THEN Failure("MissingColumn")
                    ELSE ParseDataRow(lines, symbolIndex, dateIndex,
                                      timeIndex, closeIndex)

\* a faulty variant: the data row is the last line, not the second
ParseQuoteLastLine(csvText) ==
  IF trim(csvText) = <<>>
    THEN Failure("EmptyResponse")
  ELSE LET lines == split(trim(csvText), "\n")
       IN IF Len(lines) < 2
            THEN Failure("MalformedStructure")
          ELSE LET header == split(lines[1], ",")
                   symbolIndex == indexOf(header, kSymbol)
                   dateIndex == indexOf(header, kDate)
                   timeIndex == indexOf(header, kTime)
                   closeIndex == indexOf(header, kClose)
               IN IF symbolIndex = -1 \/ dateIndex = -1
                       \/ timeIndex = -1 \/ closeIndex = -1
                    THEN Failure("MissingColumn")
                    ELSE ParseDataRow(<<lines[1], lines[Len(lines)]>>,
                                      symbolIndex, dateIndex,
                                      timeIndex, closeIndex)

\* stooq.ts 38-66, then the data row
ParseQuote(csvText) ==
  IF trim(csvText) = <<>>
    THEN Failure("EmptyResponse")
  ELSE LET lines == split(trim(csvText), "\n")
       IN IF Len(lines) < 2
            THEN Failure("MalformedStructure")
          ELSE LET header == split(lines[1], ",")
                   symbolIndex == indexOf(header, kSymbol)
                   dateIndex == indexOf(header, kDate)
                   timeIndex == indexOf(header, kTime)
                   closeIndex == indexOf(header, kClose)
               IN IF symbolIndex = -1 \/ dateIndex = -1
                       \/ timeIndex = -1 \/ closeIndex = -1
                    THEN Failure("MissingColumn")
                    ELSE ParseDataRow(lines, symbolIndex, dateIndex,
                                      timeIndex, closeIndex)

(***************************************************************************)
(* The browser page, src/src/stooq.ts 122-335.                             *)
(***************************************************************************)
\* what the user may have typed into targetInput and intervalInput, after
\* parseFloat: a number or NaN (None)
TargetInputs == {None, Some(0), Some(2)}
IntervalInputs == {None, Some(-1), Some(0), Some(5)}
SymbolInputs == {"", "aapl.us"}
\* closes the page observes: below, at and above the one valid target
WebCloses == {1, 2, 3}
\* what a rejected fetchQuote of the page carries (stooq.ts 174-177)
WebFailureMessages == {"API request failed"}

\* stooq.ts 189-197
updateUI(u, price, status) ==
  [u EXCEPT !.priceText = IF price # None THEN price ELSE None,
            !.statusText = status]

\* stooq.ts 204-207
showAlert(u, message) ==
  [u EXCEPT !.alertText = message, !.alertShown = TRUE]

\* stooq.ts 212-215
hideAlert(u) ==
  [u EXCEPT !.alertShown = FALSE, !.alertText = None]

\* stooq.ts 315-330, the part that acts on the DOM
stopPollingUI(u) ==
  [hideAlert(updateUI(u, None, "Stopped"))
     EXCEPT !.startDisabled = FALSE, !.stopDisabled = TRUE]

\* stooq.ts 317-321, the part that acts on the interval timer
stopPollingTimer ==
  IF pollingIntervalId # 0
    THEN /\ timers' = {t \in timers : t.id # pollingIntervalId}
         /\ pollingIntervalId' = 0
    ELSE UNCHANGED <<timers, pollingIntervalId>>

\* a faulty variant: strict comparisons
pollThresholdCrossedStrict(direction, currentPrice, target) ==
  IF direction = "above"
    THEN currentPrice > target
    ELSE currentPrice < target

\* stooq.ts 276-285: the threshold predicate of poll
pollThresholdCrossed(direction, currentPrice, target) ==
  IF direction = "above"
    THEN currentPrice >= target
    ELSE currentPrice <= target

DefaultIntervalSeconds == 10

\* stooq.ts 226: parseFloat(intervalInput.value) || 10
IntervalSeconds(input) ==
  IF input = None \/ input = Some(0) THEN DefaultIntervalSeconds ELSE input[1]

\* stooq.ts 229-242: the three validations of startPolling
StartInputsValid(symbol, target, interval) ==
  /\ symbol # ""
  /\ ~(target = None \/ target[1] <= 0)
  /\ ~(IntervalSeconds(interval) <= 0)

\* stooq.ts 221-309: a click on Start
startPolling(symbol, target, direction, interval) ==
  /\ ~ui.startDisabled
  /\ Len(sessions) < MaxSessions
  /\ polls < MaxPolls
  /\ IF StartInputsValid(symbol, target, interval)
       THEN LET s == Len(sessions) + 1
                id == s
            IN /\ ui' = [hideAlert(updateUI(ui, None, "Starting..."))
                           EXCEPT !.startDisabled = TRUE, !.stopDisabled = FALSE]
               /\ sessions' = Append(sessions,
                     [target |-> target[1], direction |-> direction,
                      intervalMs |-> IntervalSeconds(interval) * 1000,
                      isActive |-> TRUE])
               \* stooq.ts 305: the first poll() runs at once, up to its await
               /\ inflight' = inflight \cup {[n |-> polls + 1, s |-> s]}
               /\ polls' = polls + 1
               \* stooq.ts 308
               /\ timers' = timers \cup {[id |-> id, s |-> s]}
               /\ pollingIntervalId' = id
               /\ hist' = Append(hist, [fetches |-> 1, statuses |-> 0,
                                        errors |-> 0, alerts |-> 0,
                                        stopped |-> FALSE])
       ELSE UNCHANGED webVars
  /\ UNCHANGED <<cliVars, pureVars, netVars>>

\* stooq.ts 262-270: the interval timer calls poll(), which runs to its await
pollTick(t) ==
  /\ t \in timers
  /\ polls < MaxPolls
  /\ IF ~sessions[t.s].isActive
       THEN UNCHANGED <<inflight, polls, hist>>
       ELSE /\ inflight' = inflight \cup {[n |-> polls + 1, s |-> t.s]}
            /\ polls' = polls + 1
            /\ hist' = [hist EXCEPT ![t.s].fetches = @ + 1]
  /\ UNCHANGED <<ui, pollingIntervalId, timers, sessions>>
  /\ UNCHANGED <<cliVars, pureVars, netVars>>

\* stooq.ts 270-295: the fetch of poll p resolved with a quote
pollResolve(p, close) ==
  /\ p \in inflight
  /\ inflight' = inflight \ {p}
  /\ LET c == sessions[p.s]
         u1 == updateUI(ui, Some(close), "Polling...")
     IN IF pollThresholdCrossed(c.direction, close, c.target)
          THEN /\ ui' = stopPollingUI(
                          updateUI(showAlert(u1, <<close, c.target>>),
                                   Some(close), "Alert triggered!"))
               /\ stopPollingTimer
               /\ hist' = [hist EXCEPT ![p.s].statuses = @ + 1,
                                       ![p.s].alerts = @ + 1]
          ELSE /\ ui' = u1
               /\ hist' = [hist EXCEPT ![p.s].statuses = @ + 1]
               /\ UNCHANGED <<timers, pollingIntervalId>>
  /\ UNCHANGED <<sessions, polls>>
  /\ UNCHANGED <<cliVars, pureVars, netVars>>

\* stooq.ts 296-301: the fetch of poll p rejected
pollReject(p, msg) ==
  /\ p \in inflight
  /\ inflight' = inflight \ {p}
  /\ ui' = updateUI(ui, None, "Error")
  /\ hist' = [hist EXCEPT ![p.s].errors = @ + 1]
  /\ UNCHANGED <<pollingIntervalId, timers, sessions, polls>>
  /\ UNCHANGED <<cliVars, pureVars, netVars>>

\* stooq.ts 315-330, 334: a click on Stop
stopPolling ==
  /\ ~ui.stopDisabled
  /\ ui' = stopPollingUI(ui)
  /\ stopPollingTimer
  \* the session the click stops is the one whose timer is running
  /\ hist' = [s \in DOMAIN hist |->
               IF \E t \in timers : t.id = pollingIntervalId /\ t.s = s
                 THEN [hist[s] EXCEPT !.stopped = TRUE]
                 ELSE hist[s]]
  /\ UNCHANGED <<sessions, inflight, polls>>
  /\ UNCHANGED <<cliVars, pureVars, netVars>>

\* the page after DOMContentLoaded (stooq.ts 122-157); the texts of the
\* elements come from the HTML and are left empty here
WebInit ==
  /\ ui = [priceText |-> None, statusText |-> "", alertText |-> None,
           alertShown |-> FALSE, startDisabled |-> FALSE, stopDisabled |-> TRUE]
  /\ pollingIntervalId = 0
  /\ timers = {}
  /\ sessions = <<>>
  /\ inflight = {}
  /\ polls = 0
  /\ hist = <<>>

(***************************************************************************)
(* The pure functions on drawn inputs.                                     *)
(***************************************************************************)
RECURSIVE Join(_, _)
Join(pieces, sep) ==
  IF pieces = <<>> THEN <<>>
  ELSE IF Len(pieces) = 1 THEN pieces[1]
  ELSE pieces[1] \o sep \o Join(Tail(pieces), sep)

kOpen == <<"O", "p", "e", "n">>
\* header lines: complete, permuted, with a fifth column, without Close,
\* without Symbol, with a lower-case close, with a space before Date, with
\* the carriage return of a CRLF line end after Close, empty, blank
Headers ==
  { Join(<<kSymbol, kDate, kTime, kClose>>, <<",">>),
    Join(<<kClose, kTime, kDate, kSymbol>>, <<",">>),
    Join(<<kSymbol, kDate, kTime, kOpen, kClose>>, <<",">>),
    Join(<<kSymbol, kDate, kTime>>, <<",">>),
    Join(<<kDate, kTime, kClose>>, <<",">>),
    Join(<<kSymbol, kDate, kTime, <<"c", "l", "o", "s", "e">>>>, <<",">>),
    Join(<<kSymbol, <<" ">> \o kDate, kTime, kClose>>, <<",">>),
    Join(<<kSymbol, kDate, kTime, kClose \o <<"\r">>>>, <<",">>),
    <<>>,
    <<" ">> }

\* field texts: empty, the sentinel, a word, a padded decimal, a negative
\* number followed by a letter
FieldValues ==
  { <<>>, kNA, <<"A">>, <<" ", "7", ".", "5", " ">>, <<"-", "7", "x">> }

Rows == UNION {[1..n -> FieldValues] : n \in 0..MaxFields}

\* what follows the second line: nothing, a line end, a third line
Tails == { <<>>, <<"\n">>, <<"\n", "A", ",", "7">> }

Bodies ==
  Headers
    \cup {h \o <<"\n">> \o Join(r, <<",">>) \o t : h \in Headers, r \in Rows, t \in Tails}

\* fetchQuote's checks applied to the drawn body
Parse ==
  /\ parsed = None
  /\ parsed' = Some(ParseQuote(responseBody))
  /\ UNCHANGED <<responseBody, th>>
  /\ UNCHANGED <<cliVars, webVars, netVars>>

ThresholdInputs == [close : Closes, target : 1..MaxClose, direction : Directions]

\* alert.ts 75-84 applied to the drawn inputs
EvalRunAlert ==
  /\ th.runAlert = None
  /\ th' = [th EXCEPT !.runAlert =
              Some(thresholdCrossed(th.direction, th.close, th.target))]
  /\ UNCHANGED <<responseBody, parsed>>
  /\ UNCHANGED <<cliVars, webVars, netVars>>

\* stooq.ts 276-285 applied to the drawn inputs
EvalPoll ==
  /\ th.poll = None
  /\ th' = [th EXCEPT !.poll =
              Some(pollThresholdCrossed(th.direction, th.close, th.target))]
  /\ UNCHANGED <<responseBody, parsed>>
  /\ UNCHANGED <<cliVars, webVars, netVars>>

(***************************************************************************)
(* fetchQuote as a process, src/src/stooq.ts 15-111, and the relay         *)
(* endpoint that calls it, src/server/server.ts 31-66.                     *)
(***************************************************************************)
\* symbol arguments: empty, blank, plain, padded
FetchSymbols == { <<>>, <<" ">>, <<"A">>, <<" ", "A", " ">> }
\* response statuses; response.ok is true of 200..299
HttpStatuses == {200, 204, 404, 500}
ok(status) == status >= 200 /\ status <= 299
\* response bodies: every drawn header alone, and the complete header over
\* every row of four drawn field values
FetchBodies ==
  Headers \cup
    { Join(<<kSymbol, kDate, kTime, kClose>>, <<",">>) \o <<"\n">>
        \o Join(r, <<",">>) : r \in [1..4 -> FieldValues] }

\* the bodies the relay's upstream answers with: the headers alone, and the
\* complete header over rows of an absent, a textual and a numeric value
RelayBodies ==
  Headers \cup
    { Join(<<kSymbol, kDate, kTime, kClose>>, <<",">>) \o <<"\n">>
        \o Join(r, <<",">>) :
          r \in [1..4 -> {kNA, <<"A">>, <<" ", "7", ".", "5", " ">>}] }

\* Error(`Failed to fetch quote for ${symbol}: HTTP ${response.status}`)
HttpError(symbol, status) ==
  [ok |-> FALSE, reason |-> "HttpError", symbol |-> symbol, status |-> status]

FetchQuoteIdle ==
  [pc |-> "idle", symbol |-> <<>>, requests |-> <<>>, status |-> None,
   reads |-> 0, body |-> None, result |-> None]

\* a faulty variant: the symbol is not tested after trimming
fetchQuoteBlankAccepted(symbol) ==
  IF symbol = <<>>
    THEN [FetchQuoteIdle EXCEPT !.pc = "done", !.symbol = symbol,
                                !.result = Some(Failure("EmptySymbol"))]
    ELSE [FetchQuoteIdle EXCEPT !.pc = "fetch", !.symbol = symbol,
                                !.requests = <<symbol>>]

\* stooq.ts 15-28: the call, up to the first await
fetchQuote(symbol) ==
  IF symbol = <<>> \/ trim(symbol) = <<>>
    THEN [FetchQuoteIdle EXCEPT !.pc = "done", !.symbol = symbol,
                                !.result = Some(Failure("EmptySymbol"))]
    ELSE [FetchQuoteIdle EXCEPT !.pc = "fetch", !.symbol = symbol,
                                !.requests = <<symbol>>]

\* fetchQuote called on its own, by no relay request
FetchQuoteCall(symbol) ==
  /\ fq.pc = "idle"
  /\ srv.pc = "idle"
  /\ fq' = fetchQuote(symbol)
  /\ UNCHANGED <<srv, cliVars, webVars, pureVars>>

\* a faulty variant: response.ok is not tested
ResponseArrivesUnchecked(status) ==
  /\ fq.pc = "fetch"
  /\ fq' = [fq EXCEPT !.pc = "text", !.status = Some(status), !.reads = @ + 1]
  /\ UNCHANGED <<srv, cliVars, webVars, pureVars>>

\* a faulty variant: an HTTP error is answered with a second request
ResponseArrivesRetry(status) ==
  /\ fq.pc = "fetch"
  /\ fq' = IF ~ok(status) /\ Len(fq.requests) < 2
             THEN [fq EXCEPT !.requests = Append(@, fq.symbol)]
           ELSE IF ~ok(status)
             THEN [fq EXCEPT !.pc = "done", !.status = Some(status),
                             !.result = Some(HttpError(fq.symbol, status))]
             ELSE [fq EXCEPT !.pc = "text", !.status = Some(status),
                             !.reads = @ + 1]
  /\ UNCHANGED <<srv, cliVars, webVars, pureVars>>

\* stooq.ts 28-36: fetch(url) resolves with a response
ResponseArrives(status) ==
  /\ fq.pc = "fetch"
  /\ fq' = IF ~ok(status)
             THEN [fq EXCEPT !.pc = "done", !.status = Some(status),
                             !.result = Some(HttpError(fq.symbol, status))]
             ELSE [fq EXCEPT !.pc = "text", !.status = Some(status),
                             !.reads = @ + 1]
  /\ UNCHANGED <<srv, cliVars, webVars, pureVars>>

\* stooq.ts 28: fetch(url) rejects; nothing catches it
NetworkFails ==
  /\ fq.pc = "fetch"
  /\ fq' = [fq EXCEPT !.pc = "done", !.result = Some(Failure("NetworkError"))]
  /\ UNCHANGED <<srv, cliVars, webVars, pureVars>>

\* stooq.ts 36-110: response.text() resolves with the body
TextArrives(csvText) ==
  /\ fq.pc = "text"
  /\ fq' = [fq EXCEPT !.pc = "done", !.body = Some(csvText),
                      !.result = Some(ParseQuote(csvText))]
  /\ UNCHANGED <<srv, cliVars, webVars, pureVars>>

\* stooq.ts 36: response.text() rejects; nothing catches it
TextFails ==
  /\ fq.pc = "text"
  /\ fq' = [fq EXCEPT !.pc = "done", !.result = Some(Failure("NetworkError"))]
  /\ UNCHANGED <<srv, cliVars, webVars, pureVars>>

\* req.query.symbol: absent, a repeated or nested parameter, a string
QuerySymbols ==
  { [type |-> "undefined", text |-> <<>>], [type |-> "object", text |-> <<>>] }
    \cup { [type |-> "string", text |-> t] : t \in FetchSymbols }

RelayIdle == [pc |-> "idle", query |-> [type |-> "undefined", text |-> <<>>],
              responses |-> <<>>]

\* res.status(status).json(body)
Respond(r, status, body) ==
  [r EXCEPT !.responses = Append(@, [status |-> status, body |-> body])]

\* a faulty variant: the 400 answer is not followed by return
RequestNoReturn(symbol) ==
  /\ srv.pc = "idle"
  /\ fq.pc = "idle"
  /\ IF symbol.type # "string" \/ symbol.text = <<>> \/ trim(symbol.text) = <<>>
       THEN /\ srv' = [Respond(srv, 400, [error |-> "Missing or invalid 'symbol' query parameter"])
                         EXCEPT !.pc = "await", !.query = symbol]
            /\ fq' = fetchQuote(trim(symbol.text))
       ELSE /\ srv' = [srv EXCEPT !.pc = "await", !.query = symbol]
            /\ fq' = fetchQuote(trim(symbol.text))
  /\ UNCHANGED <<cliVars, webVars, pureVars>>

\* server.ts 31-45: the handler, up to its await
Request(symbol) ==
  /\ srv.pc = "idle"
  /\ fq.pc = "idle"
  /\ IF symbol.type # "string" \/ symbol.text = <<>> \/ trim(symbol.text) = <<>>
       THEN /\ srv' = [Respond(srv, 400, [error |-> "Missing or invalid 'symbol' query parameter"])
                         EXCEPT !.pc = "done", !.query = symbol]
            /\ fq' = fq
       ELSE /\ srv' = [srv EXCEPT !.pc = "await", !.query = symbol]
            /\ fq' = fetchQuote(trim(symbol.text))
  /\ UNCHANGED <<cliVars, webVars, pureVars>>

\* server.ts 45-65: the handler, once fetchQuote has settled
RelaySettle ==
  /\ srv.pc = "await"
  /\ fq.pc = "done"
  /\ LET quote == fq.result[1]
     IN srv' = [(IF quote.ok
                   THEN Respond(srv, 200, [symbol |-> quote.symbol,
                                           date |-> quote.date,
                                           time |-> quote.time,
                                           close |-> quote.close])
                   ELSE Respond(srv, 502,
                          [error |-> "Failed to fetch quote from upstream service",
                           message |-> quote]))
                EXCEPT !.pc = "done"]
  /\ UNCHANGED <<fq, cliVars, webVars, pureVars>>

NetIdle ==
  /\ fq = FetchQuoteIdle
  /\ srv = RelayIdle

PureIdle ==
  /\ responseBody = <<>>
  /\ parsed = None
  /\ th = [close |-> 0, target |-> 1, direction |-> "above",
           runAlert |-> None, poll |-> None]

CliIdle ==
  /\ config = [target |-> 2, direction |-> "above", intervalMs |-> 1]
  /\ pc = "start"
  /\ pending = 0
  /\ timer = -1
  /\ elapsed = 0
  /\ fetches = 0
  /\ trace = <<>>

CliInit ==
  /\ config \in Configs
  /\ pc = "start"
  /\ pending = 0
  /\ timer = -1
  /\ elapsed = 0
  /\ fetches = 0
  /\ trace = <<>>

Init == CliInit /\ WebInit /\ PureIdle /\ NetIdle

Next ==
  \/ RunAlertCall
  \/ \E close \in Closes : FetchResolve(close)
  \/ \E msg \in FailureMessages : FetchReject(msg)
  \/ Tick
  \/ SleepDone
  \/ \E command \in {"q", "x"} : CommandLine(command)

Spec == Init /\ [][Next]_vars

\* a fetch of runAlert settles, one way or the other
FetchSettles ==
  \/ \E close \in Closes : FetchResolve(close)
  \/ \E msg \in FailureMessages : FetchReject(msg)

\* runAlert under fairness: the call is made, every fetch settles in the
\* end, the timer of every sleep runs down and the loop goes on when it has
SpecLive ==
  /\ Spec
  /\ WF_vars(RunAlertCall)
  /\ WF_vars(FetchSettles)
  /\ WF_vars(Tick)
  /\ WF_vars(SleepDone)

\* the browser page alone; no runAlert runs in it
WebNext ==
  \/ \E symbol \in SymbolInputs, target \in TargetInputs,
        direction \in Directions, interval \in IntervalInputs :
          startPolling(symbol, target, direction, interval)
  \/ \E t \in timers : pollTick(t)
  \/ \E p \in inflight, close \in WebCloses : pollResolve(p, close)
  \/ \E p \in inflight, msg \in WebFailureMessages : pollReject(p, msg)
  \/ stopPolling

WebOnlyInit == WebInit /\ CliIdle /\ PureIdle /\ NetIdle

SpecWeb == WebOnlyInit /\ [][WebNext]_vars

\* the parser on every drawn body
ParseInit ==
  /\ responseBody \in Bodies
  /\ parsed = None
  /\ th = [close |-> 0, target |-> 1, direction |-> "above",
           runAlert |-> None, poll |-> None]
  /\ CliIdle
  /\ WebInit
  /\ NetIdle

SpecParse == ParseInit /\ [][Parse]_vars

\* the two threshold predicates on every drawn (close, target, direction)
ThresholdInit ==
  /\ \E i \in ThresholdInputs :
       th = [close |-> i.close, target |-> i.target, direction |-> i.direction,
             runAlert |-> None, poll |-> None]
  /\ responseBody = <<>>
  /\ parsed = None
  /\ CliIdle
  /\ WebInit
  /\ NetIdle

ThresholdNext == EvalRunAlert \/ EvalPoll

SpecThreshold == ThresholdInit /\ [][ThresholdNext]_vars

\* one fetchQuote invocation against every upstream behaviour
FetchNext ==
  \/ \E symbol \in FetchSymbols : FetchQuoteCall(symbol)
  \/ \E status \in HttpStatuses : ResponseArrives(status)
  \/ NetworkFails
  \/ \E csvText \in FetchBodies : TextArrives(csvText)
  \/ TextFails

NetInit == NetIdle /\ CliIdle /\ WebInit /\ PureIdle

SpecFetch == NetInit /\ [][FetchNext]_vars

\* one relay request; fetch() and response.text() settle in the end (the
\* platform's fetch gives up on an upstream that stays silent), and the
\* event loop runs every continuation that is ready
ServerNext ==
  \/ \E symbol \in QuerySymbols : Request(symbol)
  \/ \E status \in HttpStatuses : ResponseArrives(status)
  \/ NetworkFails
  \/ \E csvText \in RelayBodies : TextArrives(csvText)
  \/ TextFails
  \/ RelaySettle

SpecServer == NetInit /\ [][ServerNext]_vars /\ WF_vars(ServerNext)

(***************************************************************************)
(* Properties of runAlert, checked under Spec.                             *)
(***************************************************************************)
Idx == 1..Len(trace)
Is(i, e) == i \in Idx /\ trace[i].e = e
ResolveIdx == {i \in Idx : trace[i].e = "resolve"}
SettleIdx == {i \in Idx : trace[i].e \in {"resolve", "reject"}}
FetchIdx == {i \in Idx : trace[i].e = "fetch"}
AlertIdx == {i \in Idx : trace[i].e = "log.alert"}
\* the observed closes, in order
RECURSIVE ClosesFrom(_)
ClosesFrom(i) ==
  IF i > Len(trace) THEN <<>>
  ELSE IF trace[i].e = "resolve" THEN <<trace[i].v>> \o ClosesFrom(i + 1)
  ELSE ClosesFrom(i + 1)
ObservedCloses == ClosesFrom(1)
\* the threshold predicate as the specification words it
Crosses(close) ==
  \/ config.direction = "above" /\ close >= config.target
  \/ config.direction = "below" /\ close <= config.target

\* C1: runAlert reaches TRIGGERED exactly at the first successful fetch whose
\* close satisfies the threshold predicate: a crossing observation is followed
\* at once by the alert and the return, no alert is emitted on an earlier
\* observation, and no fetch is issued after it.
C1_TriggersAtFirstCrossing ==
  /\ \A i \in ResolveIdx :
       Crosses(trace[i].v) =>
         /\ Is(i + 2, "log.alert")
         /\ pc = "returned"
         /\ \A j \in FetchIdx : j < i
  /\ \A a \in AlertIdx :
       /\ Is(a - 2, "resolve")
       /\ Crosses(trace[a - 2].v)
       /\ \A k \in ResolveIdx : k < a - 2 => ~Crosses(trace[k].v)
       /\ \A b \in AlertIdx : b = a
  /\ (pc = "returned") <=> (AlertIdx # {})

\* direction below, target 2, closes 4, 3, 1: triggered on the third only
C1_Witness ==
  /\ config.direction = "below"
  /\ config.target = 2
  /\ ObservedCloses = <<4, 3, 1>>
  /\ pc = "returned"
  /\ fetches = 3

\* C3: runAlert called with intervalMs <= 0 or target <= 0 fails with a
\* configuration error before entering POLLING: no fetch is issued, nothing
\* is logged and no sleep is started.
C3_InvalidConfigRejected ==
  (pc # "start" /\ (config.intervalMs <= 0 \/ config.target <= 0)) =>
    /\ pc = "threw"
    /\ fetches = 0
    /\ pending = 0
    /\ timer = -1
    /\ trace = <<>>

C3_Witness ==
  /\ pc = "threw"
  /\ config.intervalMs = -1
  /\ config.target > 0

Polling == {"fetching", "sleeping"}

StopsOnlyByTriggerOrCancel ==
  pc \in Polling =>
    \/ pc' \in Polling
    \/ /\ pc' = "returned"
       /\ Len(trace') > Len(trace)
       /\ trace'[Len(trace) + 1].e = "resolve"
       /\ Crosses(trace'[Len(trace) + 1].v)
    \/ /\ pc' = "exited"
       /\ trace'[Len(trace')].e = "quit"

\* C4: once runAlert polls, it leaves POLLING only by a TRIGGERED transition
\* (a resolved fetch whose close crosses) or by the external quit; a rejected
\* fetch always leaves it polling.
C4_OnlyTriggerOrCancelStops == [][StopsOnlyByTriggerOrCancel]_vars

\* every fetch of the run failed, MaxCycles times in a row, and the loop
\* is still polling
C4_Witness ==
  /\ fetches = MaxCycles
  /\ Cardinality({i \in Idx : trace[i].e = "reject"}) = MaxCycles
  /\ ResolveIdx = {}
  /\ pc = "sleeping"

\* C5: between two consecutive fetches a full sleep of intervalMs elapses:
\* every fetch but the first directly follows a sleep(intervalMs) that was
\* started after the previous fetch settled, and at least intervalMs have
\* passed since that fetch settled.
C5_FullSleepBetweenFetches ==
  \A i \in FetchIdx :
    (\E j \in FetchIdx : j < i) =>
      /\ Is(i - 1, "sleep")
      /\ trace[i - 1].v = config.intervalMs
      /\ trace[i].v >= config.intervalMs
      /\ \E s \in SettleIdx : s < i /\ \A j \in FetchIdx : j < i => j < s

\* a fetch after a failed fetch and a fetch after a non-crossing quote
C5_Witness ==
  /\ fetches = 3
  /\ Is(3, "reject")
  /\ \E i \in ResolveIdx : ~Crosses(trace[i].v) /\ \E j \in FetchIdx : j > i
  /\ config.intervalMs = 2

\* C6: an alert instance has at most one fetch outstanding, and a fetch is
\* issued only when the previous one has settled.
C6_OneFetchOutstanding ==
  /\ pending <= 1
  /\ pending = Cardinality(FetchIdx) - Cardinality(SettleIdx)
       \/ pc = "exited"
  /\ \A i, j \in FetchIdx : i < j => \E s \in SettleIdx : i < s /\ s < j

C6_Witness ==
  /\ pending = 1
  /\ fetches = 3
  /\ Cardinality(SettleIdx) = 2

\* C9: every failed fetch is logged, with its message, before the interval
\* sleep starts and before the next fetch is issued.
C9_FailureLoggedBeforeRetry ==
  \A i \in Idx :
    trace[i].e = "reject" =>
      /\ Is(i + 1, "log.error")
      /\ trace[i + 1].v = trace[i].v
      /\ \A j \in Idx :
           (j > i /\ trace[j].e \in {"sleep", "fetch"}) => j > i + 1

C9_Witness ==
  /\ Is(3, "reject")
  /\ Is(4, "log.error")
  /\ \E j \in FetchIdx : j > 4


(***************************************************************************)
(* Properties of the threshold predicates, checked under SpecThreshold.    *)
(***************************************************************************)
\* C2: for direction above, crossed iff close >= target; for direction below,
\* crossed iff close <= target; close = target counts as crossed in both
\* directions; in runAlert and in the browser's poll alike.
C2_ThresholdPredicate ==
  \A r \in {th.runAlert, th.poll} :
    r # None =>
      /\ th.direction = "above" => (r[1] <=> th.close >= th.target)
      /\ th.direction = "below" => (r[1] <=> th.close <= th.target)
      /\ th.close = th.target => r[1]

C2_Witness ==
  /\ th.close = th.target
  /\ th.direction = "below"
  /\ th.runAlert = Some(TRUE)
  /\ th.poll = Some(TRUE)

(***************************************************************************)
(* Properties of the alert notification and of cancellation.               *)
(***************************************************************************)
\* runAlert's part of C7 (holds under Spec): at most one alert is logged, it
\* carries the crossing price and the target, and it is the last thing the
\* instance does.
C7_RunAlertOneShot ==
  \A a \in AlertIdx :
    /\ a = Len(trace)
    /\ Is(a - 2, "resolve")
    /\ trace[a] = Event("log.alert", <<trace[a - 2].v, config.target>>)
    /\ Crosses(trace[a - 2].v)

AlertedSessionIsQuiet ==
  \A s \in DOMAIN hist :
    hist[s].alerts >= 1 =>
      /\ hist'[s].alerts = hist[s].alerts
      /\ hist'[s].fetches = hist[s].fetches
      /\ hist'[s].statuses = hist[s].statuses

\* C7: the alert notification is one-shot: an instance emits it at most once,
\* and after it has emitted it the instance issues no further fetch and
\* emits no further status observation.  Stated for the browser session.
C7_OneShotAlert == [][AlertedSessionIsQuiet]_vars

StoppedSessionIsQuiet ==
  \A s \in DOMAIN hist :
    hist[s].stopped =>
      /\ hist'[s].fetches = hist[s].fetches
      /\ hist'[s].alerts = hist[s].alerts

\* runAlert's part of C8 (holds under Spec): after the quit command the
\* instance does nothing more.
C8_QuitIsFinal == [][pc = "exited" => UNCHANGED cliVars]_vars

\* C8: after the user's Stop the session issues no new fetch and emits no
\* alert notification, even if a fetch in flight at that time later resolves
\* with a crossing price.  Stated for the browser session.
C8_StopEmitsNoAlert == [][StoppedSessionIsQuiet]_vars

(***************************************************************************)
(* Properties of the parser, checked under SpecParse.                      *)
(***************************************************************************)
Range(f) == {f[i] : i \in DOMAIN f}

PriorityOrder ==
  << "EmptyResponse", "MalformedStructure", "MissingColumn", "InvalidSymbol",
     "MissingTimestamp", "MissingPrice", "InvalidPrice" >>

\* The ranks in PriorityOrder of the failure conditions of the specification
\* that a body violates, each condition taken on its own.  A condition on a
\* field of the data row applies when the body has a second line and the
\* header has the column; the field is the one under the first column of
\* that name, absent (None) when the row is too short.
ViolatedRanksOf(text) ==
  LET lines == split(trim(text), <<"\n">>[1])
      twoLines == Len(lines) >= 2
      names == split(lines[1], ",")
      row == IF twoLines THEN split(lines[2], ",") ELSE <<>>
      Has(name) == name \in Range(names)
      Applies(name) == twoLines /\ Has(name)
      Field(name) ==
        LET col == Min({i \in 1..Len(names) : names[i] = name})
        IN IF col <= Len(row) THEN Some(trim(row[col])) ELSE None
      Empty(name) == Applies(name) /\ Field(name) \in {None, Some(<<>>)}
      Sentinel(name) == Applies(name) /\ Field(name) = Some(kNA)
      Violates(reason) ==
        CASE reason = "EmptyResponse" -> trim(text) = <<>>
          [] reason = "MalformedStructure" -> ~twoLines
          [] reason = "MissingColumn" ->
               \E name \in {kSymbol, kDate, kTime, kClose} : ~Has(name)
          [] reason = "InvalidSymbol" -> Empty(kSymbol) \/ Sentinel(kSymbol)
          [] reason = "MissingTimestamp" -> Empty(kDate) \/ Empty(kTime)
          [] reason = "MissingPrice" -> Empty(kClose) \/ Sentinel(kClose)
          [] reason = "InvalidPrice" ->
               /\ Applies(kClose)
               /\ isNaN(parseFloat(IF Field(kClose) = None THEN <<>>
                                   ELSE Field(kClose)[1]))
  IN {k \in 1..Len(PriorityOrder) : Violates(PriorityOrder[k])}

ViolatedRanks == ViolatedRanksOf(responseBody)

\* C10: the reported failure is the earliest violated condition in the order
\* EmptyResponse, MalformedStructure, MissingColumn, InvalidSymbol,
\* MissingTimestamp, MissingPrice, InvalidPrice; a body that violates none
\* parses.
C10_FailurePriority ==
  parsed # None =>
    LET ranks == ViolatedRanks
    IN IF ranks = {}
         THEN parsed[1].ok
         ELSE /\ ~parsed[1].ok
              /\ parsed[1].reason = PriorityOrder[Min(ranks)]

\* Symbol,Date,Time,Close / N/A,N/A,N/A,N/A fails with InvalidSymbol, though
\* it violates MissingPrice and InvalidPrice as well
C10_Witness ==
  /\ responseBody = Join(<<kSymbol, kDate, kTime, kClose>>, <<",">>)
                      \o <<"\n">> \o Join(<<kNA, kNA, kNA, kNA>>, <<",">>)
  /\ parsed = Some(Failure("InvalidSymbol"))
  /\ ViolatedRanks = {4, 6, 7}


Blank(text) == \A i \in 1..Len(text) : IsWhitespace(text[i])
RawLines == split(responseBody, <<"\n">>[1])
\* the body is one line, with or without a line end after it
OneLineBody ==
  LET raw == RawLines
  IN Len(raw) = 1 \/ (Len(raw) = 2 /\ raw[2] = <<>>)

\* C11 as stated: a body of only one line fails with MalformedStructure,
\* whatever the line holds, a line of only white space included.
C11_OneLineIsMalformed ==
  (parsed # None /\ OneLineBody /\ responseBody # <<>>) =>
    parsed[1] = Failure("MalformedStructure")

\* C11, amended: a body of only one line fails with MalformedStructure, unless
\* the line is empty or only white space: then it fails with EmptyResponse,
\* which is checked first.
C11_OneLineFails ==
  (parsed # None /\ OneLineBody) =>
    parsed[1] = IF Blank(responseBody)
                  THEN Failure("EmptyResponse")
                  ELSE Failure("MalformedStructure")

\* a complete header line followed by a line end
C11_Witness ==
  /\ responseBody = Join(<<kSymbol, kDate, kTime, kClose>>, <<",">>) \o <<"\n">>
  /\ parsed = Some(Failure("MalformedStructure"))

RequiredColumns == <<kSymbol, kDate, kTime, kClose>>

\* The data row's raw fields under Symbol, Date, Time, Close of a body of
\* exactly two lines whose header has the four columns; <<>> for any other
\* body or when the row is too short.
TwoLineFields(text) ==
  LET raw == split(text, <<"\n">>[1])
      names == split(raw[1], ",")
      row == split(raw[2], ",")
      Col(name) == Min({i \in 1..Len(names) : names[i] = name})
  IN IF Len(raw) # 2 THEN <<>>
     ELSE IF \E k \in 1..4 : RequiredColumns[k] \notin Range(names) THEN <<>>
     ELSE IF \E k \in 1..4 : Col(RequiredColumns[k]) > Len(row) THEN <<>>
     ELSE [k \in 1..4 |-> row[Col(RequiredColumns[k])]]

StartsWithNumber(text) == ~isNaN(parseFloat(text))

\* C12 as stated: with a complete header and non-empty, non-"N/A" values in
\* the four columns, parsing succeeds; symbol, date and time are the trimmed
\* field texts and close is the numeric value of the Close text.
C12_CompleteRowParses ==
  parsed # None =>
    LET f == TwoLineFields(responseBody)
    IN (f # <<>> /\ \A k \in 1..4 : f[k] # <<>> /\ f[k] # kNA) =>
         parsed[1] = Quote(trim(f[1]), trim(f[2]), trim(f[3]), parseFloat(f[4]))

\* C12, amended: with a complete header and, in the four columns, values that
\* are non-empty after trimming, a Symbol and a Close that are not "N/A" and a
\* Close that begins with a decimal number, parsing succeeds; symbol, date and
\* time are the trimmed field texts and close is the value of the number the
\* Close text begins with (what follows the number is ignored).
C12_NumericRowParses ==
  parsed # None =>
    LET f == TwoLineFields(responseBody)
    IN (/\ f # <<>>
        /\ \A k \in 1..4 : trim(f[k]) # <<>>
        /\ trim(f[1]) # kNA
        /\ trim(f[4]) # kNA
        /\ StartsWithNumber(trim(f[4]))) =>
         parsed[1] = Quote(trim(f[1]), trim(f[2]), trim(f[3]),
                           parseFloat(trim(f[4])))

\* Close,Time,Date,Symbol / -7x,N/A, 7.5 ,A parses: close is -7, the date
\* is 7.5 without its padding
C12_Witness ==
  /\ responseBody = Join(<<kClose, kTime, kDate, kSymbol>>, <<",">>) \o <<"\n">>
       \o Join(<< <<"-", "7", "x">>, kNA, <<" ", "7", ".", "5", " ">>, <<"A">> >>,
               <<",">>)
  /\ parsed = Some(Quote(<<"A">>, <<"7", ".", "5">>, kNA,
                         [kind |-> "number", neg |-> TRUE, mant |-> 7, exp |-> 0]))

\* the lines fetchQuote works on, and the names of its header line
TrimmedLines == split(trim(responseBody), <<"\n">>[1])
HeaderComplete(lines) ==
  \A k \in 1..4 : RequiredColumns[k] \in Range(split(lines[1], ","))

C14_QuoteInvariant ==
  (parsed # None /\ parsed[1].ok) =>
    /\ parsed[1].symbol # <<>>
    /\ parsed[1].symbol # kNA
    /\ parsed[1].date # <<>>
    /\ parsed[1].time # <<>>
    /\ parsed[1].close.kind = "number"
    /\ ~parsed[1].close.neg
    /\ parsed[1].close.mant > 0

\* the body with everything after its second line replaced by tail
WithTail(raw, tail) == raw[1] \o <<"\n">> \o raw[2] \o tail

C16_EmptySymbolBeforeNetwork ==
  (fq.pc # "idle" /\ Blank(fq.symbol)) =>
    /\ fq.pc = "done"
    /\ fq.result = Some(Failure("EmptySymbol"))
    /\ fq.requests = <<>>
    /\ fq.status = None
    /\ fq.reads = 0

\* the call with a symbol of one space
C16_Witness ==
  /\ fq.symbol = <<" ">>
  /\ fq.pc = "done"
  /\ fq.result = Some(Failure("EmptySymbol"))
  /\ fq.requests = <<>>

\* C17: on a response status that is not a success fetchQuote fails with
\* HttpError carrying that status, and the body is never read or parsed;
\* otherwise the body is read once and what the parser makes of the full
\* body is the result, unchanged.
C17_StatusThenParser ==
  fq.status # None =>
    IF ~ok(fq.status[1])
      THEN /\ fq.pc = "done"
           /\ fq.result = Some(HttpError(fq.symbol, fq.status[1]))
           /\ fq.reads = 0
           /\ fq.body = None
      ELSE /\ fq.reads = 1
           /\ fq.body # None =>
                (fq.pc = "done" /\ fq.result = Some(ParseQuote(fq.body[1])))

\* a 404 response
C17_Witness ==
  /\ fq.status = Some(404)
  /\ fq.pc = "done"
  /\ fq.result = Some(HttpError(<<"A">>, 404))
  /\ fq.reads = 0

\* C18: one invocation of fetchQuote issues at most one upstream request,
\* however it ends, and none once it has settled.
C18_NoRetryInFetcher ==
  /\ Len(fq.requests) <= 1
  /\ (fq.pc \in {"fetch", "text"} \/ fq.status # None) => Len(fq.requests) = 1

\* an invocation that ended in a parse failure after its one request
C18_Witness ==
  /\ fq.pc = "done"
  /\ fq.requests = << <<"A">> >>
  /\ fq.result = Some(Failure("InvalidPrice"))

(***************************************************************************)
(* Properties of the relay endpoint, checked under SpecServer.             *)
(***************************************************************************)
QueryInvalid(q) == q.type # "string" \/ Blank(q.text)

\* what the request has been answered with so far is what it must be
RelayAnswer ==
  /\ Len(srv.responses) <= 1
  /\ Len(srv.responses) = 1 <=> srv.pc = "done"
  /\ srv.pc = "done" =>
       IF QueryInvalid(srv.query)
         THEN /\ srv.responses[1].status = 400
              /\ DOMAIN srv.responses[1].body = {"error"}
              /\ fq = FetchQuoteIdle
         ELSE /\ fq.pc = "done"
              /\ fq.symbol = trim(srv.query.text)
              /\ IF fq.result[1].ok
                   THEN srv.responses[1] =
                          [status |-> 200,
                           body |-> [symbol |-> fq.result[1].symbol,
                                     date |-> fq.result[1].date,
                                     time |-> fq.result[1].time,
                                     close |-> fq.result[1].close]]
                   ELSE /\ srv.responses[1].status = 502
                        /\ DOMAIN srv.responses[1].body = {"error", "message"}
                        /\ srv.responses[1].body.message = fq.result[1]
  /\ (srv.pc # "idle" /\ QueryInvalid(srv.query)) => fq.requests = <<>>

\* C19: GET /api/quote answers every request with exactly one response: 400
\* with {error}, and no upstream fetch, when the symbol parameter is missing,
\* not a string or blank; 200 with {symbol, date, time, close} when
\* fetchQuote succeeds; 502 with {error, message} when it fails.
C19_RelayAnswersOnce == []RelayAnswer /\ <>(srv.pc = "done")

\* a request answered 502 after an upstream 500
C19_Witness ==
  /\ srv.pc = "done"
  /\ srv.query = [type |-> "string", text |-> <<" ", "A", " ">>]
  /\ fq.status = Some(500)
  /\ Len(srv.responses) = 1
  /\ srv.responses[1].status = 502

(***************************************************************************)
(* Properties of the browser polling session, checked under SpecWeb.       *)
(***************************************************************************)
\* C20: in the browser polling session at most one quote fetch is outstanding
\* at a time: no poll of a session starts a fetch while the fetch of an
\* earlier poll of that session is pending.
C20_OneFetchOutstandingInBrowser ==
  \A s \in 1..Len(sessions) : Cardinality({p \in inflight : p.s = s}) <= 1

\* a step in which a poll of some session called showAlert
PollTriggers == \E s \in DOMAIN hist : hist'[s].alerts > hist[s].alerts
\* a step that is a click on Start (a new session) or on Stop
StartOrStopClick ==
  \/ Len(sessions') > Len(sessions)
  \/ (inflight' = inflight /\ polls' = polls /\ ui' = stopPollingUI(ui))
AlertDisplayed(u) ==
  u.alertShown /\ u.alertText # None /\ u.statusText = "Alert triggered!"
AlertStaysDisplayed ==
  /\ PollTriggers => AlertDisplayed(ui')
  /\ (AlertDisplayed(ui) /\ ~StartOrStopClick) => AlertDisplayed(ui')

\* C21: in the browser, once a poll that observed a crossing price has
\* finished, the alert message is displayed (alertText non-empty and shown)
\* and the status reads "Alert triggered!", and this stays so until the user
\* next clicks Start or Stop.
C21_AlertStaysDisplayed == [][AlertStaysDisplayed]_vars

\* a step in which a poll of a session older than the newest one settles
OldPollSettles ==
  \E p \in inflight : p \notin inflight' /\ p.s < Len(sessions)
OldPollLeavesNewSessionAlone ==
  OldPollSettles =>
    /\ timers' = timers
    /\ pollingIntervalId' = pollingIntervalId
    /\ ui' = ui

\* C22: browser polling sessions are independent: when the fetch of a poll
\* of a stopped or triggered session settles after the user has clicked
\* Start again, it does not cancel the new session's interval timer, does
\* not overwrite the displayed price, status and alert, and does not
\* re-enable the Start button.
C22_SessionsIndependent == [][OldPollLeavesNewSessionAlone]_vars

(***************************************************************************)
(* Liveness of runAlert, checked under SpecLive.                           *)
(***************************************************************************)
\* a step that settles a fetch settles it with a quote whose close crosses
FetchesCross ==
  pending' < pending =>
    \/ pc' = "exited"
    \/ \E close \in Closes :
         /\ thresholdCrossed(config.direction, close, config.target)
         /\ trace' = trace \o <<Event("resolve", close),
                                Event("log.status", close),
                                Event("log.alert", <<close, config.target>>)>>
Alerted == \E i \in Idx : Is(i, "log.alert")
\* the model follows runAlert for MaxCycles fetches and no further
CyclesExhausted == pc = "sleeping" /\ timer = 0 /\ fetches = MaxCycles

\* C23: with a valid config, if every fetch completes and every sleep elapses
\* in the end and from some point on every fetch succeeds with a close that
\* satisfies the threshold predicate, then runAlert logs the alert and
\* returns, whatever failures and non-crossing quotes came first (as far as
\* the model follows the loop, and unless the user quits the process).
C23_EventuallyAlerts ==
  (/\ ConfigValid(config)
   /\ [](pc # "exited")
   /\ <>[][FetchesCross]_vars)
    => <>((pc = "returned" /\ Alerted) \/ CyclesExhausted)

\* a failure, a quote that does not cross, then the alert at the third fetch
C23_Witness ==
  /\ pc = "returned"
  /\ fetches = 3
  /\ Alerted
  /\ \E i \in Idx : Is(i, "log.retry")
  /\ \E i \in Idx : Is(i, "resolve") /\ ~Crosses(trace[i].v)

=============================================================================
